---- MODULE Spec2Model ----
(***************************************************************************)
(* Model of vrm_fetch.py: one run of main() over the time-budgeted fetch   *)
(* layer api_get().                                                        *)
(*                                                                         *)
(* Time is counted in ticks of 0.1 s.  The code divides the remaining      *)
(* budget by 2 (timeouts) and by 4 (backoff); to stay in the integers the  *)
(* model keeps the per-attempt timeouts doubled (connect_t2 = 2*connect_t, *)
(* read_t2 = 2*read_t) and the backoff sleep quadrupled (sleep_s4 =        *)
(* 4*sleep_s), which is exact.                                             *)
(***************************************************************************)
EXTENDS Integers, Sequences, FiniteSets, TLC

VARIABLES
    RETRIES, TOTAL_BUDGET_SEC, CONNECT_TIMEOUT, READ_TIMEOUT, BACKOFF_BASE,
    clock, t0,
    pc, phase, attempt, remaining, connect_t2, read_t2, sleep_s4,
    gets, sleeps, resp, lastCall, deadlineHit,
    user_id, installs, gen_id, con_id, out, stdout, stderr, exitCode, exc,
    \* main: the (timestamp, zone) pairs collected, the one chosen, and the
    \* fetches started so far, in order
    timestamp_candidates, latest, fetched,
    \* last_point_value: its arguments and what it returned
    entries, prefer_avg, lpv_ret,
    \* get_active_alarms: the body of the response and what it returned
    envelope, alarms_ret,
    \* site_local_ms_to_utc_iso: its arguments and what it returned
    ms, site_tz, iso_ret

envVars  == <<RETRIES, TOTAL_BUDGET_SEC, CONNECT_TIMEOUT, READ_TIMEOUT, BACKOFF_BASE>>
callVars == <<phase, attempt, remaining, connect_t2, read_t2, sleep_s4, gets, sleeps, resp>>
mainVars == <<pc, user_id, installs, gen_id, con_id, out, stdout, stderr, exitCode, exc,
              timestamp_candidates, latest, lastCall, deadlineHit, fetched>>
lpvVars  == <<entries, prefer_avg, lpv_ret>>
alarmVars == <<envelope, alarms_ret>>
isoVars  == <<ms, site_tz, iso_ret>>
pureVars == <<lpvVars, alarmVars, isoVars>>
vars     == <<envVars, clock, t0, callVars, mainVars, pureVars>>

----------------------------------------------------------------------------
(* Bounds of the model *)

\* RETRIES is drawn from 1..MaxRetries
MaxRetries == 3
\* the largest TOTAL_BUDGET_SEC of a run, in ticks
MaxBudget == 16
\* a GET lasts 0..MaxGetTicks ticks, or as long as its timeouts allow
MaxGetTicks == 1
MaxLen == 2
MaxAlarmRecs == 2
MaxDatetime == 8

(* Program constants, in ticks of 0.1 s *)

\* the 0.5 s floor of the per-attempt timeouts
TimeoutFloor == 5
\* the 0.1 s floor of the backoff sleep
SleepFloor == 1
\* the defaults of the tunables
DefaultConnectTimeout == 40
DefaultReadTimeout == 60
DefaultBackoffBase == 4
DefaultRetries == 2
DefaultBudget == 250

\* Python's None, among the non-negative ids and timestamps of the model
None == 0 - 1

Min(a, b) == IF a <= b THEN a ELSE b
Max(a, b) == IF a >= b THEN a ELSE b

RECURSIVE Pow2(_)
Pow2(n) == IF n <= 0 THEN 1 ELSE 2 * Pow2(n - 1)

Range(s) == {s[i] : i \in DOMAIN s}

----------------------------------------------------------------------------
(* The values the environment can set the tunables to *)

RetriesValues     == 1..MaxRetries
BudgetValues      == {0, 7, MaxBudget}
\* <<CONNECT_TIMEOUT, READ_TIMEOUT>>: a tight pair, or the defaults
TimeoutValues     == {<<6, 7>>, <<DefaultConnectTimeout, DefaultReadTimeout>>}
BackoffValues     == {1, DefaultBackoffBase}

(* The logical fetches of a run, in program order *)
Fetches      == {"users_me", "list_installations", "gen_stats", "gen_alarms",
                 "con_stats", "con_alarms"}
AlarmFetches == {"gen_alarms", "con_alarms"}

(* What one GET can end in, besides "ok" and "401": a timeout or a connection
   error; an HTTP error status (raise_for_status) or a body r.json() cannot parse *)
Transient == {"timeout", "conn_error"}
FailFast  == {"http_error", "bad_json"}

(* How an api_get call can end: "ok", the outcome of its last GET, "deadline"
   (the budget check) or "loop_exit" (the while loop ran out); and the
   exception each raises *)
ExcOf(r) ==
    CASE r = "timeout"    -> "Timeout"
      [] r = "conn_error" -> "ConnectionError"
      [] r = "http_error" -> "HTTPError"
      [] r = "bad_json"   -> "JSONDecodeError"
      [] r = "401"        -> "SystemExit"
      [] r = "deadline"   -> "TimeoutError"
      [] r = "loop_exit"  -> "TimeoutError"
      [] OTHER            -> "none"

----------------------------------------------------------------------------
(* api_get: the decisions of one attempt *)

\* the while condition
LoopCond(a) == a < RETRIES

\* remaining = TOTAL_BUDGET_SEC - (time.monotonic() - t0)
Remaining == TOTAL_BUDGET_SEC - (clock - t0)

\* mutant: the check lets remaining = 0 through
DeadlinePassedStrict(rem) == rem < 0

\* if remaining <= 0: raise TimeoutError
DeadlinePassed(rem) == rem <= 0

\* 2 * min(CONNECT_TIMEOUT, max(0.5, remaining / 2))
ConnectT2(rem) == Min(2 * CONNECT_TIMEOUT, Max(2 * TimeoutFloor, rem))

\* 2 * min(READ_TIMEOUT, max(0.5, remaining / 2))
ReadT2(rem) == Min(2 * READ_TIMEOUT, Max(2 * TimeoutFloor, rem))

\* mutant: every request error is retried
RetriedAnyRequestError(r) == r \in Transient \cup FailFast

\* except (requests.Timeout, requests.ConnectionError)
Retried(r) == r \in Transient

\* mutant: the last failure is slept on and looped once more
RetriesExhaustedLate(a) == a > RETRIES

\* if attempt >= RETRIES: raise
RetriesExhausted(a) == a >= RETRIES

\* 4 * min(BACKOFF_BASE * 2 ** (attempt - 1), max(0.1, remaining / 4))
SleepS4(a, rem) == Min(4 * BACKOFF_BASE * Pow2(a - 1), Max(4 * SleepFloor, rem))

\* the longest a GET with these timeouts is taken to last, in whole ticks
GetCeiling(c2, r2) == (c2 + r2 + 1) \div 2

\* time.sleep(s) returns after at least s: the first tick at or after s
SleepTicks(s4) == (s4 + 3) \div 4

----------------------------------------------------------------------------
(* JSON values, as json.loads builds them.  A number is an int, a float (kept
   in halves: v = 3 is 1.5), NaN or Infinity (json.loads accepts both); a bool
   is an int to isinstance.  A list is a record with its items. *)

IntV(n)   == [k |-> "int", v |-> n, s |-> ""]
FloatV(h) == [k |-> "float", v |-> h, s |-> ""]
BoolV(b)  == [k |-> "bool", v |-> IF b THEN 1 ELSE 0, s |-> ""]
StrV(t)   == [k |-> "str", v |-> 0, s |-> t]
NaNV      == [k |-> "nan", v |-> 0, s |-> ""]
InfV      == [k |-> "inf", v |-> 0, s |-> ""]
NullV     == [k |-> "none", v |-> 0, s |-> ""]

ListV(items) == [is_list |-> TRUE, items |-> items]
NotAList     == [is_list |-> FALSE, items |-> <<>>]

\* isinstance(x, (int, float))
IsNumber(e) == e.k \in {"int", "float", "bool", "nan", "inf"}

\* math.isnan(x), for a number x
IsNan(e) == e.k = "nan"

\* float(x), for a number x
FloatOf(e) == IF e.k \in {"int", "bool"} THEN FloatV(2 * e.v) ELSE e

\* int(x), for a finite number x >= 0: a float is truncated
IntOf(e) == IF e.k = "float" THEN e.v \div 2 ELSE e.v

\* the exception int(x) raises: ValueError for NaN, OverflowError for Infinity
IntRaises(e) ==
    CASE e.k = "nan" -> "ValueError"
      [] e.k = "inf" -> "OverflowError"
      [] OTHER       -> "none"

----------------------------------------------------------------------------
(* last_point_value *)

\* the call has not returned yet
Pending == [exc |-> "pending", ts |-> None, val |-> NullV]

\* return (None, None)
NoPoint == [exc |-> "none", ts |-> None, val |-> NullV]

\* len(pt) < 2
PointTooShort(pt) == Len(pt.items) < 2

\* ts = pt[0] if isinstance(pt[0], (int, float)) else None
PointTs(pt) == IF IsNumber(pt.items[1]) THEN pt.items[1] ELSE NullV

\* mutant: prefer_avg reads the next column when the point has one
SelectValueNextColumn(pt, prefer) ==
    IF prefer /\ Len(pt.items) >= 3 /\ IsNumber(pt.items[3])
    THEN FloatOf(pt.items[3])
    ELSE IF IsNumber(pt.items[2]) THEN pt.items[2] ELSE NullV

\* mutant: any value that is not None is taken
SelectValueUnchecked(pt, prefer) ==
    IF prefer /\ Len(pt.items) >= 2 /\ IsNumber(pt.items[2])
    THEN FloatOf(pt.items[2])
    ELSE pt.items[2]

\* the value of a point: index 1 on both branches of prefer_avg
SelectValue(pt, prefer) ==
    IF prefer /\ Len(pt.items) >= 2 /\ IsNumber(pt.items[2])
    THEN FloatOf(pt.items[2])
    ELSE IF IsNumber(pt.items[2]) THEN pt.items[2] ELSE NullV

\* return (int(ts), float(val))
ReturnPoint(ts, val) ==
    IF IntRaises(ts) # "none"
    THEN [exc |-> IntRaises(ts), ts |-> None, val |-> NullV]
    ELSE [exc |-> "none", ts |-> IntOf(ts), val |-> FloatOf(val)]

\* for idx in range(len(entries) - 1, -1, -1): idx here is the 1-based index
RECURSIVE LpvScan(_, _, _)
LpvScan(items, idx, prefer) ==
    IF idx < 1 THEN NoPoint
    ELSE LET pt == items[idx]
         IN  IF ~pt.is_list \/ PointTooShort(pt) THEN LpvScan(items, idx - 1, prefer)
             ELSE IF PointTs(pt) = NullV THEN LpvScan(items, idx - 1, prefer)
             ELSE IF SelectValue(pt, prefer) # NullV /\ ~IsNan(SelectValue(pt, prefer))
                  THEN ReturnPoint(PointTs(pt), SelectValue(pt, prefer))
                  ELSE LpvScan(items, idx - 1, prefer)

\* the loop of last_point_value over a non-empty list
LpvFromEnd(e, prefer) == LpvScan(e.items, Len(e.items), prefer)

LastPointValue(e, prefer) ==
    IF ~e.is_list \/ e.items = <<>> THEN NoPoint ELSE LpvFromEnd(e, prefer)

----------------------------------------------------------------------------
(* get_active_alarms, from the parsed response on *)

\* bool(x)
Truthy(e) ==
    CASE e.k = "none" -> FALSE
      [] e.k = "str"  -> e.s # ""
      [] e.k \in {"int", "float", "bool"} -> e.v # 0
      [] OTHER -> TRUE

\* x or y
OrV(x, y) == IF Truthy(x) THEN x ELSE y

\* x == y: numbers compare by value whatever their type (True == 1 == 1.0),
\* NaN equals nothing, a string equals only the same string
PyEq(x, y) ==
    CASE x.k \in {"int", "bool"} /\ y.k \in {"int", "bool"} -> x.v = y.v
      [] x.k \in {"int", "bool"} /\ y.k = "float" -> 2 * x.v = y.v
      [] x.k = "float" /\ y.k \in {"int", "bool"} -> x.v = 2 * y.v
      [] x.k = "float" /\ y.k = "float" -> x.v = y.v
      [] x.k = "inf" /\ y.k = "inf" -> TRUE
      [] x.k = "str" /\ y.k = "str" -> x.s = y.s
      [] x.k = "none" /\ y.k = "none" -> TRUE
      [] OTHER -> FALSE

\* a key of a dict: absent, holding a list, or holding something else
Absent      == [has |-> "absent", items |-> <<>>]
NotListSlot == [has |-> "other", items |-> <<>>]
ListSlot(q) == [has |-> "list", items |-> q]

\* the response body: a dict with the keys records, alarms and data, the
\* latter a dict with the keys records and alarms; or something else
NoData == [is_dict |-> FALSE, records |-> Absent, alarms |-> Absent]
DataV(r, a) == [is_dict |-> TRUE, records |-> r, alarms |-> a]
EnvelopeV(r, a, d) == [is_dict |-> TRUE, records |-> r, alarms |-> a, data |-> d]
NotAnEnvelope == [is_dict |-> FALSE, records |-> Absent, alarms |-> Absent, data |-> NoData]

\* mutant: top-level alarms is looked at before data.records
EnvelopeOrderTopLevelFirst == <<"records", "alarms", "data.records", "data.alarms">>

\* the order of the if/elif chain
EnvelopeOrder == <<"records", "data.records", "alarms", "data.alarms">>

\* data = j.get("data") if isinstance(j, dict) else None, and the key read
SlotAt(b, loc) ==
    CASE ~b.is_dict          -> Absent
      [] loc = "records"     -> b.records
      [] loc = "alarms"      -> b.alarms
      [] loc = "data.records" -> IF b.data.is_dict THEN b.data.records ELSE Absent
      [] loc = "data.alarms"  -> IF b.data.is_dict THEN b.data.alarms ELSE Absent

\* recs: the first location of the chain that holds a list, else []
SelectRecs(b) ==
    LET hits == {i \in 1..Len(EnvelopeOrder) : SlotAt(b, EnvelopeOrder[i]).has = "list"}
    IN  IF hits = {} THEN <<>>
        ELSE SlotAt(b, EnvelopeOrder[CHOOSE i \in hits : \A k \in hits : i <= k]).items

\* an alarm record: a dict (an absent key reads as None), or something else
AlarmRec(active, state, body) ==
    [is_dict |-> TRUE, active |-> active, state |-> state,
     startTime |-> body[1], timestamp |-> body[2], time |-> body[3],
     name |-> body[4], title |-> body[5], code |-> body[6],
     severity |-> body[7], message |-> body[8], text |-> body[9]]

\* the other keys of a record: all there, only the fallback keys, none
FullBody ==
    <<IntV(9), IntV(8), IntV(7), StrV("name"), StrV("title"), StrV("code"),
      StrV("warning"), StrV("message"), StrV("text")>>
FallbackBody ==
    <<NullV, NullV, IntV(7), NullV, NullV, StrV("code"), NullV, NullV, StrV("text")>>
EmptyBody == [i \in 1..9 |-> NullV]

NotARecord == [AlarmRec(NullV, NullV, [i \in 1..9 |-> NullV]) EXCEPT !.is_dict = FALSE]

\* active_flag is True or active_flag == 1 or state in ("active", 1, "1")
IsActive(a) ==
    \/ a.active = BoolV(TRUE)
    \/ PyEq(a.active, IntV(1))
    \/ \E c \in {StrV("active"), IntV(1), StrV("1")} : PyEq(a.state, c)

\* the dict appended to out
NormalizedAlarm(a) ==
    [time     |-> OrV(OrV(a.startTime, a.timestamp), a.time),
     name     |-> OrV(OrV(a.name, a.title), a.code),
     severity |-> a.severity,
     message  |-> OrV(a.message, a.text)]

\* the loop over recs: a.get raises AttributeError on a record that is no dict
RECURSIVE NormalizeRecs(_, _)
NormalizeRecs(recs, acc) ==
    IF recs = <<>> THEN [exc |-> "none", alarms |-> acc]
    ELSE IF ~Head(recs).is_dict THEN [exc |-> "AttributeError", alarms |-> <<>>]
    ELSE NormalizeRecs(Tail(recs),
                       IF IsActive(Head(recs))
                       THEN Append(acc, NormalizedAlarm(Head(recs))) ELSE acc)

\* the call has not returned yet
AlarmsPending == [exc |-> "pending", alarms |-> <<>>]

\* get_active_alarms once api_get has returned b
ActiveAlarmsOf(b) == NormalizeRecs(SelectRecs(b), <<>>)

----------------------------------------------------------------------------
(* site_local_ms_to_utc_iso.  Time is counted in hours here: `ms` is the
   instant in hours since the epoch, a datetime is a wall-clock reading with
   its UTC offset, and datetime covers MinDatetime..MaxDatetime only. *)

MinDatetime == 0 - 4

\* ZoneInfo(key): the zones the tz database resolves, with their UTC offsets
ZoneOffsets == [z \in {"Europe/Madrid", "America/Bogota"} |->
                   IF z = "Europe/Madrid" THEN 1 ELSE 0 - 5]

ZoneInfoRaises(tz) == tz.k # "str" \/ tz.s \notin DOMAIN ZoneOffsets

InRange(h) == MinDatetime <= h /\ h <= MaxDatetime

\* mutant: the timestamp is read as the site's wall-clock time
FromTimestampAsLocal(h, off) == [wall |-> h, off |-> off]

\* datetime.fromtimestamp(ts, tz): the instant ts on the wall clock of tz
FromTimestamp(h, off) == [wall |-> h + off, off |-> off]

\* fromtimestamp raises (OverflowError, ValueError or OSError, all of them
\* Exceptions) when the instant or the wall-clock reading is out of range
FromTimestampRaises(h, off) == ~InRange(h) \/ ~InRange(h + off)

\* d.astimezone(dt.UTC)
AsTimezoneUTC(d) == [wall |-> d.wall - d.off, off |-> 0]

\* d.isoformat().replace("+00:00", "Z")
IsoFormatZ(d) == [wall |-> d.wall, suffix |-> IF d.off = 0 THEN "Z" ELSE "offset"]

\* iso_utc(d)
IsoUtc(d) == IsoFormatZ(AsTimezoneUTC(d))

IsoPending == [exc |-> "pending", iso |-> [wall |-> 0, suffix |-> ""]]

IsoRaised(e) == [exc |-> e, iso |-> [wall |-> 0, suffix |-> ""]]

\* the last line of the function, outside the try
UtcFallback(h) ==
    IF FromTimestampRaises(h, 0) THEN IsoRaised("OverflowError")
    ELSE [exc |-> "none", iso |-> IsoFormatZ(FromTimestamp(h, 0))]

SiteLocalMsToUtcIso(h, tz) ==
    IF Truthy(tz) /\ ~ZoneInfoRaises(tz) /\ ~FromTimestampRaises(h, ZoneOffsets[tz.s])
    THEN [exc |-> "none", iso |-> IsoUtc(FromTimestamp(h, ZoneOffsets[tz.s]))]
    ELSE UtcFallback(h)

----------------------------------------------------------------------------
(* Exceptions and who catches them *)

\* mutant: a bare `except:` that catches SystemExit too
CaughtByBareExcept(e) == TRUE

\* `except Exception` catches every exception but SystemExit (a BaseException)
CaughtByExceptException(e) == e # "SystemExit"

\* mutant: every fetch is wrapped in the best-effort try/except
GuardedByTryAll(f) == TRUE

\* the fetches get_active_alarms wraps in try/except
GuardedByTry(f) == f \in AlarmFetches

\* mutant: the diagnostics are printed without file=sys.stderr
DiagnosticStreamStdout == "stdout"

\* the stream the diagnostics of the early returns are printed to
DiagnosticStream == "stderr"

\* an uncaught exception, or SystemExit with a message, ends the process with status 1
UncaughtExitCode == 1

----------------------------------------------------------------------------
(* main: the state of a run as a record, and its steps as functions of it *)

\* timestamp_data: None
NoTimestamp == [wall |-> 0, suffix |-> ""]

\* the snapshot as lines 241-255 build it (timestamp_utc, the clock reading, left out)
InitialOut ==
    [timestamp_data |-> NoTimestamp,
     gen_solar_potencia_w |-> NullV, gen_red_potencia_w |-> NullV,
     gen_bateria_soc_pct |-> NullV, gen_alarmas |-> <<>>,
     con_potencia_w |-> NullV, con_alarmas |-> <<>>,
     notes |-> <<>>]

\* latest_ts, latest_tz are not bound yet
NoLatest == [ts |-> None, tz |-> NullV]

MainState ==
    [pc |-> pc, user_id |-> user_id, installs |-> installs, gen_id |-> gen_id,
     con_id |-> con_id, out |-> out, stdout |-> stdout, stderr |-> stderr,
     exitCode |-> exitCode, exc |-> exc,
     timestamp_candidates |-> timestamp_candidates, latest |-> latest]

\* an exception leaves main: traceback (or the SystemExit message) on stderr
Crash(m, e) ==
    [m EXCEPT !.pc = "done", !.exitCode = UncaughtExitCode, !.exc = e,
              !.stderr = Append(@, e)]

\* print(..., file=sys.stderr); return code
EarlyReturn(m, code, msg) ==
    [m EXCEPT !.pc = "done", !.exitCode = code,
              !.stdout = IF DiagnosticStream = "stdout" THEN Append(@, msg) ELSE @,
              !.stderr = IF DiagnosticStream = "stderr" THEN Append(@, msg) ELSE @]

AddNote(m, n) == [m EXCEPT !.out.notes = Append(@, n)]

\* print(json.dumps(out)); return 0
PrintSnapshot(m) ==
    [m EXCEPT !.pc = "done", !.exitCode = 0, !.stdout = Append(@, "json")]

\* mutant: the last candidate with the greatest timestamp wins
RECURSIVE PyMaxLastWins(_, _, _)
PyMaxLastWins(cands, i, best) ==
    IF i > Len(cands) THEN best
    ELSE PyMaxLastWins(cands, i + 1, IF cands[i].ts >= best.ts THEN cands[i] ELSE best)

\* max(cands, key=lambda x: x[0]) from item i on: a later item replaces the
\* best so far only if its key is greater
RECURSIVE PyMax(_, _, _)
PyMax(cands, i, best) ==
    IF i > Len(cands) THEN best
    ELSE PyMax(cands, i + 1, IF cands[i].ts > best.ts THEN cands[i] ELSE best)

\* the end of main: timestamp_data from the latest candidate, then the print
Finish(m) ==
    IF m.timestamp_candidates = <<>> THEN PrintSnapshot(m)
    ELSE LET c == PyMax(m.timestamp_candidates, 2, m.timestamp_candidates[1])
             r == SiteLocalMsToUtcIso(c.ts, c.tz)
         IN  IF r.exc # "none" THEN Crash([m EXCEPT !.latest = c], r.exc)
             ELSE PrintSnapshot([m EXCEPT !.latest = c, !.out.timestamp_data = r.iso])

\* the CONSUMO section up to its first fetch
ConSection(m) ==
    IF m.con_id # None
    THEN [m EXCEPT !.pc = "con_stats"]
    ELSE Finish(AddNote(m, "con_missing"))

\* the GENERACION section up to its first fetch
GenSection(m) ==
    IF m.gen_id # None
    THEN [m EXCEPT !.pc = "gen_stats"]
    ELSE ConSection(AddNote(m, "gen_missing"))

\* pick_site_id: the idSite of the first installation whose name matches
PickSiteId(ins, want) ==
    LET hits == {i \in DOMAIN ins : ins[i].name = want}
    IN  IF hits = {} THEN None
        ELSE ins[CHOOSE i \in hits : \A j \in hits : i <= j].idSite

\* a or b
PyOr(a, b) == IF a # None THEN a ELSE b

\* users_me returned uid
AfterUsersMe(m, uid) ==
    IF uid = None
    THEN EarlyReturn(m, 2, "no_user_id")
    ELSE [m EXCEPT !.user_id = uid, !.pc = "list_installations"]

\* list_installations_by_user returned ins
AfterInstallations(m, ins) ==
    IF ins = <<>>
    THEN EarlyReturn(m, 3, "no_installations")
    ELSE GenSection([m EXCEPT
            !.installs = ins,
            !.gen_id = PyOr(PickSiteId(ins, "generacion"), PickSiteId(ins, "generacion")),
            !.con_id = PyOr(PickSiteId(ins, "consumo"), PickSiteId(ins, "consumo")),
            !.out = InitialOut,
            !.timestamp_candidates = <<>>])

\* tz = it.get("timezone") or it.get("timeZone") or it.get("tz")
InstallTz(it) == OrV(OrV(it.timezone, it.timeZone), it.tz)

\* build_site_tz_map(installs).get(sid): the zone of the last installation
\* of that id whose zone is a non-empty string, else None
SiteTzMapGet(ins, sid) ==
    LET hits == {i \in DOMAIN ins : /\ ins[i].idSite = sid /\ ins[i].idSite # None
                                    /\ InstallTz(ins[i]).k = "str"
                                    /\ Truthy(InstallTz(ins[i]))}
    IN  IF hits = {} THEN NullV
        ELSE InstallTz(ins[CHOOSE i \in hits : \A k \in hits : k <= i])

\* the response of venus_stats: a dict or not, its records a dict or not, and
\* the series of the records (a missing key reads as [])
StatsV(is_dict, records_is_dict, solar_yield, from_to_grid, bs, ac_loads) ==
    [is_dict |-> is_dict, records_is_dict |-> records_is_dict,
     solar_yield |-> solar_yield, from_to_grid |-> from_to_grid, bs |-> bs,
     ac_loads |-> ac_loads]

\* the series main reads in each section: key, prefer_avg, field of out
SeriesRead(f) ==
    IF f = "gen_stats"
    THEN <<[key |-> "solar_yield", prefer |-> FALSE, field |-> "gen_solar_potencia_w"],
           [key |-> "from_to_grid", prefer |-> FALSE, field |-> "gen_red_potencia_w"],
           [key |-> "bs", prefer |-> TRUE, field |-> "gen_bateria_soc_pct"]>>
    ELSE <<[key |-> "ac_loads", prefer |-> FALSE, field |-> "con_potencia_w"]>>

\* rec.get(key, []), rec being {} when the response is no dict
SeriesOf(st, key) == IF st.is_dict THEN st[key] ELSE ListV(<<>>)

\* ts, val = last_point_value(...), then the two ifs, for each series in turn
RECURSIVE ExtractSeries(_, _, _, _)
ExtractSeries(m, st, tz, reads) ==
    IF reads = <<>> THEN m
    ELSE LET rd == Head(reads)
             r  == LastPointValue(SeriesOf(st, rd.key), rd.prefer)
             m1 == IF r.val # NullV THEN [m EXCEPT !.out[rd.field] = r.val] ELSE m
             m2 == IF r.ts # None
                   THEN [m1 EXCEPT !.timestamp_candidates = Append(@, [ts |-> r.ts, tz |-> tz])]
                   ELSE m1
         IN  IF r.exc # "none" THEN Crash(m, r.exc)
             ELSE ExtractSeries(m2, st, tz, Tail(reads))

\* mutant: the consumption section reads the generation site's alarms
AlarmsFetchOfGen(f) == "gen_alarms"

\* the alarms fetch that follows the stats fetch of a section
AlarmsFetchOf(f) == IF f = "gen_stats" THEN "gen_alarms" ELSE "con_alarms"

\* venus_stats returned st: rec.get(...) needs the records to be a dict
AfterStats(m, f, st) ==
    IF st.is_dict /\ ~st.records_is_dict
    THEN Crash(m, "AttributeError")
    ELSE LET sid == IF f = "gen_stats" THEN m.gen_id ELSE m.con_id
             m1  == ExtractSeries(m, st, SiteTzMapGet(m.installs, sid), SeriesRead(f))
         IN  IF m1.pc = "done" THEN m1
             ELSE [m1 EXCEPT !.pc = AlarmsFetchOf(f)]

\* what follows the alarms of a section
AfterSection(m, f) == IF f = "gen_alarms" THEN ConSection(m) ELSE Finish(m)

\* get_active_alarms returned the list al
AlarmsReturned(m, f, al) ==
    AfterSection(IF f = "gen_alarms" THEN [m EXCEPT !.out.gen_alarmas = al]
                                     ELSE [m EXCEPT !.out.con_alarmas = al], f)

\* get_active_alarms raised e: main's handler notes it, unless it is no Exception
AlarmsRaised(m, f, e) ==
    IF CaughtByExceptException(e)
    THEN AfterSection(AddNote(m, IF f = "gen_alarms" THEN "gen_alarms_error"
                                                     ELSE "con_alarms_error"), f)
    ELSE Crash(m, e)

\* the normalisation loop over the alarm records of a parsed payload
NormalizeAlarms(m, f, al) ==
    IF ActiveAlarmsOf(al).exc # "none" THEN AlarmsRaised(m, f, ActiveAlarmsOf(al).exc)
    ELSE AlarmsReturned(m, f, ActiveAlarmsOf(al).alarms)

\* api_get returned payload p to the caller of fetch f
Returned(m, f, p) ==
    CASE f = "users_me"           -> AfterUsersMe(m, p)
      [] f = "list_installations" -> AfterInstallations(m, p)
      [] f \in AlarmFetches       -> NormalizeAlarms(m, f, p)
      [] OTHER                    -> AfterStats(m, f, p)

\* api_get raised e in fetch f
Raised(m, f, e) ==
    IF GuardedByTry(f) /\ CaughtByExceptException(e)
    THEN AlarmsReturned(m, f, <<>>)
    ELSE IF f \in AlarmFetches THEN AlarmsRaised(m, f, e) ELSE Crash(m, e)

----------------------------------------------------------------------------
(* The payloads a successful GET of each fetch can carry *)

Install(name, idSite, timezone, timeZone, tz) ==
    [name |-> name, idSite |-> idSite, timezone |-> timezone, timeZone |-> timeZone, tz |-> tz]

Gen   == Install("generacion", 1, StrV("Europe/Madrid"), NullV, NullV)
Con   == Install("consumo", 2, NullV, StrV("America/Bogota"), NullV)
Other == Install("otro", 3, NullV, NullV, NullV)

\* one valid point per series, the consumption site's being the latest
GoodStats ==
    StatsV(TRUE, TRUE, ListV(<<ListV(<<IntV(1), FloatV(20)>>)>>),
                       ListV(<<ListV(<<IntV(2), IntV(0 - 7)>>)>>),
                       ListV(<<ListV(<<IntV(2), FloatV(60), IntV(5), IntV(50)>>)>>),
                       ListV(<<ListV(<<IntV(3), FloatV(15)>>)>>))

Payloads(f) ==
    CASE f = "users_me"           -> {None, 42}
      [] f = "list_installations" -> {<<>>, <<Gen, Con>>, <<Con, Gen>>, <<Gen>>, <<Con>>, <<Other>>}
      [] f \in AlarmFetches       ->
            {EnvelopeV(ListSlot(<<AlarmRec(BoolV(FALSE), NullV, FullBody)>>), Absent, NoData),
             EnvelopeV(ListSlot(<<AlarmRec(BoolV(TRUE), NullV, FullBody)>>), Absent, NoData),
             EnvelopeV(ListSlot(<<NotARecord>>), Absent, NoData)}
      [] OTHER                    -> {GoodStats, [GoodStats EXCEPT !.records_is_dict = FALSE]}

----------------------------------------------------------------------------
(* The state machine *)

NoCall == [fetch |-> "none", gets |-> 0, sleeps |-> 0, result |-> "none"]

\* the tunables as lines 18-23 default them
EnvDefaults ==
    /\ RETRIES = DefaultRetries /\ TOTAL_BUDGET_SEC = DefaultBudget
    /\ CONNECT_TIMEOUT = DefaultConnectTimeout /\ READ_TIMEOUT = DefaultReadTimeout
    /\ BACKOFF_BASE = DefaultBackoffBase

\* main has not been entered
MainInit ==
    /\ clock = 0 /\ t0 = 0
    /\ pc = "start" /\ phase = "idle" /\ attempt = 0 /\ remaining = 0
    /\ connect_t2 = 0 /\ read_t2 = 0 /\ sleep_s4 = 0
    /\ gets = 0 /\ sleeps = 0 /\ resp = "none" /\ lastCall = NoCall
    /\ user_id = None /\ installs = <<>> /\ gen_id = None /\ con_id = None
    /\ out = InitialOut /\ stdout = <<>> /\ stderr = <<>>
    /\ exitCode = -1 /\ exc = "none"
    /\ timestamp_candidates = <<>> /\ latest = NoLatest
    /\ deadlineHit = {} /\ fetched = <<>>

\* last_point_value has not been called on its own
LpvIdle == entries = NotAList /\ prefer_avg = FALSE /\ lpv_ret = Pending

\* get_active_alarms has not been called on its own
AlarmsIdle == envelope = NotAnEnvelope /\ alarms_ret = AlarmsPending

\* site_local_ms_to_utc_iso has not been called on its own
IsoIdle == ms = 0 /\ site_tz = NullV /\ iso_ret = IsoPending

Init ==
    /\ RETRIES \in RetriesValues
    /\ TOTAL_BUDGET_SEC \in BudgetValues
    /\ \E tv \in TimeoutValues : CONNECT_TIMEOUT = tv[1] /\ READ_TIMEOUT = tv[2]
    /\ BACKOFF_BASE \in BackoffValues
    /\ MainInit
    /\ LpvIdle /\ AlarmsIdle /\ IsoIdle

SetMain(m) ==
    /\ pc' = m.pc /\ user_id' = m.user_id /\ installs' = m.installs
    /\ gen_id' = m.gen_id /\ con_id' = m.con_id /\ out' = m.out
    /\ stdout' = m.stdout /\ stderr' = m.stderr
    /\ exitCode' = m.exitCode /\ exc' = m.exc
    /\ timestamp_candidates' = m.timestamp_candidates /\ latest' = m.latest

\* api_get is entered (attempt = 0) when main goes on to a fetch, else nothing runs
EnterCall(m) ==
    /\ phase' = IF m.pc \in Fetches THEN "loop" ELSE "idle"
    /\ attempt' = 0 /\ remaining' = 0 /\ connect_t2' = 0 /\ read_t2' = 0
    /\ sleep_s4' = 0 /\ gets' = 0 /\ sleeps' = 0 /\ resp' = "none"
    /\ fetched' = IF m.pc \in Fetches THEN Append(fetched, m.pc) ELSE fetched

\* the current api_get call ends with `result`, and main runs on to its next fetch or its end
EndCall(m, result) ==
    /\ SetMain(m)
    /\ EnterCall(m)
    /\ lastCall' = [fetch |-> pc, gets |-> gets, sleeps |-> sleeps, result |-> result]
    /\ deadlineHit' = IF result = "deadline" THEN deadlineHit \cup {pc} ELSE deadlineHit

\* main: t0 = time.monotonic(), then users_me
Start ==
    /\ pc = "start"
    /\ t0' = clock
    /\ SetMain([MainState EXCEPT !.pc = "users_me"])
    /\ EnterCall([pc |-> "users_me"])
    /\ UNCHANGED <<envVars, pureVars, clock, lastCall, deadlineHit>>

\* api_get: the top of the while loop, up to the start of the GET
BudgetCheck ==
    /\ phase = "loop"
    /\ UNCHANGED <<envVars, pureVars, clock, t0>>
    /\ IF ~LoopCond(attempt)
       THEN EndCall(Raised(MainState, pc, ExcOf("loop_exit")), "loop_exit")
       ELSE IF DeadlinePassed(Remaining)
       THEN EndCall(Raised(MainState, pc, ExcOf("deadline")), "deadline")
       ELSE /\ remaining' = Remaining
            /\ connect_t2' = ConnectT2(Remaining)
            /\ read_t2' = ReadT2(Remaining)
            /\ phase' = "get"
            /\ gets' = gets + 1
            /\ UNCHANGED <<attempt, sleep_s4, sleeps, resp, mainVars>>

GetDurations ==
    {d \in 0..GetCeiling(connect_t2, read_t2) :
        d <= MaxGetTicks \/ d = GetCeiling(connect_t2, read_t2)}

\* the GET returns a 2xx response whose JSON body is p, after d ticks
GetOk(d, p) ==
    /\ phase = "get"
    /\ clock' = clock + d
    /\ EndCall(Returned(MainState, pc, p), "ok")
    /\ UNCHANGED <<envVars, pureVars, t0>>

\* the GET ends in r, which is not a parsed 2xx response, after d ticks
GetFails(d, r) ==
    /\ phase = "get"
    /\ clock' = clock + d
    /\ UNCHANGED <<envVars, pureVars, t0>>
    /\ IF r # "401" /\ Retried(r) /\ ~RetriesExhausted(attempt + 1)
       THEN /\ attempt' = attempt + 1
            /\ sleep_s4' = SleepS4(attempt + 1, remaining)
            /\ sleeps' = sleeps + 1
            /\ resp' = r
            /\ phase' = "sleep"
            /\ UNCHANGED <<remaining, connect_t2, read_t2, gets, mainVars>>
       ELSE EndCall(Raised(MainState, pc, ExcOf(r)), r)

GetUnauthorized == \E d \in GetDurations : GetFails(d, "401")

GetTransientFailure == \E d \in GetDurations, r \in Transient : GetFails(d, r)

GetFailFast == \E d \in GetDurations, r \in FailFast : GetFails(d, r)

GetSucceeds == \E d \in GetDurations, p \in Payloads(pc) : GetOk(d, p)

\* time.sleep(sleep_s) returns
SleepDone ==
    /\ phase = "sleep"
    /\ clock' = clock + SleepTicks(sleep_s4)
    /\ phase' = "loop"
    /\ UNCHANGED <<envVars, pureVars, t0, attempt, remaining, connect_t2, read_t2, sleep_s4,
                   gets, sleeps, resp, mainVars>>

Next ==
    \/ Start
    \/ BudgetCheck
    \/ GetSucceeds
    \/ GetUnauthorized
    \/ GetTransientFailure
    \/ GetFailFast
    \/ SleepDone

Spec == Init /\ [][Next]_vars

----------------------------------------------------------------------------
(* last_point_value on its own: the series is any list of at most MaxLen
   points, or not a list at all *)

Points ==
    { ListV(<<IntV(1), FloatV(20)>>),                       \* [1, 10.0]
      ListV(<<FloatV(5), IntV(7)>>),                        \* [2.5, 7]
      ListV(<<IntV(3), FloatV(60), IntV(5), IntV(50)>>),    \* [3, 30.0, 5, 50]
      ListV(<<BoolV(TRUE), BoolV(TRUE)>>),                  \* [true, true]
      ListV(<<IntV(4), InfV>>),                             \* [4, Infinity]
      ListV(<<IntV(4), NaNV>>),                             \* [4, NaN]
      ListV(<<IntV(5), StrV("x")>>),                        \* [5, "x"]
      ListV(<<IntV(5), NullV>>),                            \* [5, null]
      ListV(<<StrV("x"), FloatV(2)>>),                      \* ["x", 1.0]
      ListV(<<IntV(6)>>),                                   \* [6]
      ListV(<<>>),                                          \* []
      NotAList,                                             \* 7, "x", {...}
      ListV(<<NaNV, FloatV(2)>>),                           \* [NaN, 1.0]
      ListV(<<InfV, FloatV(2)>>) }                          \* [Infinity, 1.0]

EntriesValues ==
    {NotAList} \cup {ListV(q) : q \in UNION {[1..n -> Points] : n \in 0..MaxLen}}

InitLPV ==
    /\ EnvDefaults /\ MainInit
    /\ entries \in EntriesValues
    /\ prefer_avg \in BOOLEAN
    /\ lpv_ret = Pending
    /\ AlarmsIdle /\ IsoIdle

CallLastPointValue ==
    /\ lpv_ret = Pending
    /\ lpv_ret' = LastPointValue(entries, prefer_avg)
    /\ UNCHANGED <<envVars, clock, t0, callVars, mainVars, entries, prefer_avg, alarmVars, isoVars>>

NextLPV == CallLastPointValue

SpecLPV == InitLPV /\ [][NextLPV]_vars

----------------------------------------------------------------------------
(* get_active_alarms on its own, from the parsed response on: every list of at
   most MaxAlarmRecs records under the key records, and every way of filling
   the four locations with nothing, a non-list or one of two lists *)

ActiveValues == {NullV, BoolV(TRUE), BoolV(FALSE), IntV(1), IntV(0), StrV("1")}
StateValues  == {NullV, StrV("active"), StrV("inactive"), IntV(1), StrV("1"), BoolV(TRUE)}

AlarmRecords ==
    {AlarmRec(a, st, FullBody) : a \in ActiveValues, st \in StateValues}
    \cup {AlarmRec(BoolV(TRUE), NullV, FallbackBody), AlarmRec(IntV(1), NullV, EmptyBody),
          NotARecord}

RecLists == UNION {[1..n -> AlarmRecords] : n \in 0..MaxAlarmRecs}

ListA == <<AlarmRec(BoolV(TRUE), NullV, FullBody), AlarmRec(BoolV(FALSE), NullV, FullBody)>>
ListB == <<AlarmRec(NullV, StrV("active"), FallbackBody)>>

SlotValues == {Absent, NotListSlot, ListSlot(ListA), ListSlot(ListB)}

EnvelopeValues ==
    {EnvelopeV(ListSlot(q), Absent, NoData) : q \in RecLists}
    \cup {EnvelopeV(r, a, DataV(dr, da)) : r \in SlotValues, a \in SlotValues,
                                           dr \in SlotValues, da \in SlotValues}
    \cup {EnvelopeV(r, a, NoData) : r \in SlotValues, a \in SlotValues}
    \cup {NotAnEnvelope}

InitAlarms ==
    /\ EnvDefaults /\ MainInit /\ LpvIdle /\ IsoIdle
    /\ envelope \in EnvelopeValues
    /\ alarms_ret = AlarmsPending

CallGetActiveAlarms ==
    /\ alarms_ret = AlarmsPending
    /\ alarms_ret' = ActiveAlarmsOf(envelope)
    /\ UNCHANGED <<envVars, clock, t0, callVars, mainVars, lpvVars, envelope, isoVars>>

NextAlarms == CallGetActiveAlarms

SpecAlarms == InitAlarms /\ [][NextAlarms]_vars

----------------------------------------------------------------------------
(* site_local_ms_to_utc_iso on its own: instants inside and just outside the
   range of datetime, and a zone that is absent, empty, known or unknown *)

MsValues == (MinDatetime - 6)..(MaxDatetime + 6)

ZoneValues ==
    {NullV, StrV(""), StrV("Europe/Madrid"), StrV("America/Bogota"), StrV("Mars/Olympus")}

InitIso ==
    /\ EnvDefaults /\ MainInit /\ LpvIdle /\ AlarmsIdle
    /\ ms \in MsValues
    /\ site_tz \in ZoneValues
    /\ iso_ret = IsoPending

CallSiteLocalMsToUtcIso ==
    /\ iso_ret = IsoPending
    /\ iso_ret' = SiteLocalMsToUtcIso(ms, site_tz)
    /\ UNCHANGED <<envVars, clock, t0, callVars, mainVars, lpvVars, alarmVars, ms, site_tz>>

NextIso == CallSiteLocalMsToUtcIso

SpecIso == InitIso /\ [][NextIso]_vars

----------------------------------------------------------------------------
(* main with each api_get call taken as one step that returns a body or
   raises, for the properties of the data: more installations and series than
   the timed specification carries *)

GenNoTz  == Install("generacion", 1, NullV, NullV, NullV)
ConBadTz == Install("consumo", 2, NullV, NullV, StrV("Mars/Olympus"))

RunSeries ==
    { ListV(<<>>),
      NotAList,
      ListV(<<ListV(<<IntV(1), FloatV(20)>>)>>),
      ListV(<<ListV(<<IntV(2), IntV(7)>>), ListV(<<IntV(5), StrV("x")>>)>>),
      ListV(<<ListV(<<NaNV, FloatV(2)>>)>>),
      ListV(<<ListV(<<IntV(MaxDatetime + 1), FloatV(2)>>)>>) }

RunPayloads(f) ==
    CASE f = "users_me"           -> {None, 42}
      [] f = "list_installations" ->
            {<<>>, <<Gen, Con>>, <<Con, Gen>>, <<Gen>>, <<Con>>, <<Other>>,
             <<GenNoTz, ConBadTz>>}
      [] f \in AlarmFetches       -> Payloads(f)
      [] f = "gen_stats"          ->
            {StatsV(TRUE, TRUE, a, b, c, ListV(<<>>)) :
                a \in RunSeries, b \in RunSeries, c \in RunSeries}
            \cup {StatsV(TRUE, FALSE, ListV(<<>>), ListV(<<>>), ListV(<<>>), ListV(<<>>)),
                  StatsV(FALSE, FALSE, ListV(<<>>), ListV(<<>>), ListV(<<>>), ListV(<<>>))}
      [] OTHER                    ->
            {StatsV(TRUE, TRUE, ListV(<<>>), ListV(<<>>), ListV(<<>>), d) : d \in RunSeries}
            \cup {StatsV(TRUE, FALSE, ListV(<<>>), ListV(<<>>), ListV(<<>>), ListV(<<>>)),
                  StatsV(FALSE, FALSE, ListV(<<>>), ListV(<<>>), ListV(<<>>), ListV(<<>>))}

InitRun == EnvDefaults /\ MainInit /\ LpvIdle /\ AlarmsIdle /\ IsoIdle

\* api_get returns the parsed body p
ApiGetReturns ==
    /\ phase = "loop"
    /\ \E p \in RunPayloads(pc) : EndCall(Returned(MainState, pc, p), "ok")
    /\ UNCHANGED <<envVars, pureVars, clock, t0>>

\* api_get raises: a 401, retries that ran out, or an error it does not retry
ApiGetRaises ==
    /\ phase = "loop"
    /\ \E r \in {"401"} \cup Transient \cup FailFast :
          EndCall(Raised(MainState, pc, ExcOf(r)), r)
    /\ UNCHANGED <<envVars, pureVars, clock, t0>>

NextRun ==
    \/ Start
    \/ ApiGetReturns
    \/ ApiGetRaises

SpecRun == InitRun /\ [][NextRun]_vars

----------------------------------------------------------------------------
(* Claims *)

FetchExceptions ==
    {"TimeoutError", "SystemExit", "Timeout", "ConnectionError", "HTTPError",
     "JSONDecodeError"}

AlarmNote(f) == IF f = "gen_alarms" THEN "gen_alarms_error" ELSE "con_alarms_error"

AlarmList(f) == IF f = "gen_alarms" THEN out.gen_alarmas ELSE out.con_alarmas

\* C1: a GET is in flight only if the budget check before it saw remaining =
\* B - (now - t0) > 0; otherwise the call fails with the deadline TimeoutError.
\* With B = 0 the run ends in the first api_get with that error and no GET.
Claim1_NoGetPastDeadline ==
    /\ phase = "get" =>
          /\ remaining = TOTAL_BUDGET_SEC - (clock - t0)
          /\ remaining > 0
    /\ TOTAL_BUDGET_SEC = 0 =>
          /\ pc \in {"start", "users_me", "done"}
          /\ phase # "get" /\ gets = 0 /\ lastCall.gets = 0
          /\ pc = "done" =>
                /\ lastCall = [fetch |-> "users_me", gets |-> 0, sleeps |-> 0,
                               result |-> "deadline"]
                /\ exc = "TimeoutError" /\ exitCode = UncaughtExitCode

Witness1_ZeroBudget ==
    /\ TOTAL_BUDGET_SEC = 0 /\ pc = "done"
    /\ lastCall.result = "deadline" /\ lastCall.gets = 0 /\ exc = "TimeoutError"

\* C2: a 401 on any attempt of any fetch ends the process at once: nothing runs
\* after it, no sleep follows it, the alarm handlers do not swallow it, and
\* no snapshot is printed.
Claim2_UnauthorizedAborts ==
    lastCall.result = "401" =>
        /\ pc = "done" /\ phase = "idle"
        /\ exc = "SystemExit" /\ exitCode = UncaughtExitCode
        /\ stdout = <<>>
        /\ lastCall.sleeps = lastCall.gets - 1
        /\ lastCall.fetch \in AlarmFetches =>
              AlarmNote(lastCall.fetch) \notin Range(out.notes)

Witness2_UnauthorizedInAlarms ==
    /\ lastCall.result = "401" /\ lastCall.fetch \in AlarmFetches
    /\ lastCall.gets >= 2 /\ pc = "done"

\* C3: every backoff sleep ends no later than the global deadline t0 + B
\* (4 * (now - t0) + 4 * sleep_s <= 4 * B when the sleep starts).
Claim3_BackoffWithinBudget ==
    phase = "sleep" => 4 * (clock - t0) + sleep_s4 <= 4 * TOTAL_BUDGET_SEC

\* C4: for every attempt started, each timeout is min(configured, max(floor,
\* remaining / 2)) and connect + read do not exceed the remaining budget.
Claim4_TimeoutsWithinRemaining ==
    phase = "get" =>
        /\ connect_t2 = Min(2 * CONNECT_TIMEOUT, Max(2 * TimeoutFloor, remaining))
        /\ read_t2 = Min(2 * READ_TIMEOUT, Max(2 * TimeoutFloor, remaining))
        /\ connect_t2 + read_t2 <= 2 * remaining

\* C5: a call issues at most RETRIES GETs; one that ends re-raising a timeout or
\* connection error issued exactly RETRIES GETs with one sleep between
\* consecutive attempts (RETRIES - 1 sleeps, none after the last), and the loop
\* is never left without an error of its own.
Claim5_BoundedAttempts ==
    /\ gets <= RETRIES /\ lastCall.gets <= RETRIES
    /\ phase = "get" => sleeps = gets - 1 /\ attempt = gets - 1
    /\ phase = "sleep" => sleeps = gets /\ gets < RETRIES /\ attempt = gets
    /\ lastCall.result \in Transient =>
          /\ lastCall.gets = RETRIES
          /\ lastCall.sleeps = RETRIES - 1
    /\ lastCall.result # "loop_exit"
    /\ (pc = "done" /\ lastCall.result \in Transient /\ lastCall.fetch \notin AlarmFetches)
          => exc = ExcOf(lastCall.result)

Witness5_RetriesExhausted ==
    /\ lastCall.result \in Transient /\ RETRIES >= 3
    /\ lastCall.gets = RETRIES /\ lastCall.sleeps = RETRIES - 1

\* C6: an HTTP error status other than 401, or another non-timeout request
\* error, ends the call with that attempt: it is never followed by a sleep or
\* by another attempt, whatever attempts and budget remain.
Claim6_FailFast ==
    /\ resp \notin FailFast
    /\ phase = "sleep" => resp \in Transient
    /\ lastCall.result \in FailFast =>
          /\ lastCall.sleeps = lastCall.gets - 1
          /\ lastCall.fetch \notin AlarmFetches =>
                pc = "done" /\ phase = "idle" /\ exc = ExcOf(lastCall.result)

Witness6_FailFastWithAttemptsLeft ==
    /\ lastCall.result \in FailFast /\ lastCall.gets < RETRIES
    /\ pc = "done" /\ TOTAL_BUDGET_SEC - (clock - t0) > 0

\* C7: when the alarms fetch of a section fails (a network error, a timeout,
\* exhausted retries, a response that cannot be parsed), the failure is caught,
\* the section's alarm list is empty, a note about it is in the notes, and the
\* run goes on.
Claim7_AlarmFailureNoted ==
    (lastCall.fetch \in AlarmFetches /\ lastCall.result \in Transient \cup FailFast) =>
        /\ AlarmList(lastCall.fetch) = <<>>
        /\ AlarmNote(lastCall.fetch) \in Range(out.notes)
        /\ exc = "none"

\* C8 as stated: a deadline found by any fetch of the run, the alarms fetches
\* included, aborts the run with a non-zero exit and no snapshot.
Claim8_DeadlineAlwaysFatal ==
    (pc = "done" /\ deadlineHit # {}) => exitCode # 0 /\ stdout = <<>>

\* C8 amended: a deadline found by the user lookup, the installation listing or
\* a stats fetch aborts the run with a non-zero exit and no snapshot; one
\* found by an alarms fetch is caught by get_active_alarms, leaves the alarm
\* list empty and does not abort the run.
Claim8_DeadlineFatalOutsideAlarms ==
    /\ deadlineHit \ AlarmFetches # {} =>
          /\ pc = "done" /\ phase = "idle"
          /\ exc = "TimeoutError" /\ exitCode = UncaughtExitCode
          /\ stdout = <<>>
    /\ \A f \in deadlineHit \cap AlarmFetches :
          /\ AlarmList(f) = <<>>
          /\ AlarmNote(f) \notin Range(out.notes)
          /\ deadlineHit \subseteq AlarmFetches => exc # "TimeoutError"

Witness8_DeadlineInStats ==
    /\ pc = "done" /\ "con_stats" \in deadlineHit /\ "gen_alarms" \notin deadlineHit
    /\ lastCall.gets >= 1

\* C9: the snapshot is printed at most once, and only when main returns 0;
\* when an error leaves main, or main returns 2 or 3, stdout is empty.
Claim9_SnapshotOnlyOnSuccess ==
    /\ Len(stdout) <= 1
    /\ stdout # <<>> => stdout = <<"json">> /\ pc = "done" /\ exitCode = 0 /\ exc = "none"
    /\ exitCode \in {1, 2, 3} => stdout = <<>>
    /\ exc # "none" => stdout = <<>>

Witness9_LateFailureNoOutput ==
    /\ pc = "done" /\ exc = "HTTPError" /\ lastCall.fetch = "con_stats"
    /\ gen_id # None /\ stdout = <<>> /\ stderr # <<>>

\* C10: main returns 2 when the user lookup yields no id, without listing the
\* installations; 3 when the installation list is empty, without a stats or
\* alarms fetch; and 0 whenever both lookups succeed and no fetch error
\* leaves main.
Claim10_ExitCodes ==
    /\ (pc = "done" /\ lastCall.fetch = "users_me" /\ lastCall.result = "ok")
          <=> exitCode = 2
    /\ (pc = "done" /\ lastCall.fetch = "list_installations" /\ lastCall.result = "ok"
            /\ installs = <<>>)
          <=> exitCode = 3
    /\ (pc = "done" /\ user_id # None /\ installs # <<>> /\ exc \notin FetchExceptions)
          => exitCode = 0


\* the points the extractor's contract calls valid: a list of at least two
\* elements, a numeric element 0, a numeric element 1 that is not NaN
ValidPoint(pt) ==
    /\ pt.is_list /\ Len(pt.items) >= 2
    /\ IsNumber(pt.items[1])
    /\ IsNumber(pt.items[2]) /\ ~IsNan(pt.items[2])

ValidIdx(e) == {i \in 1..Len(e.items) : ValidPoint(e.items[i])}

LatestValidIdx(e) == CHOOSE i \in ValidIdx(e) : \A k \in ValidIdx(e) : k <= i

\* the points C14 calls malformed
MalformedPoint(pt) ==
    \/ ~pt.is_list
    \/ Len(pt.items) < 2
    \/ ~IsNumber(pt.items[1])
    \/ ~IsNumber(pt.items[2])

LpvReturned == lpv_ret # Pending

\* C12: for every series with at least one valid point, last_point_value
\* returns the timestamp (as an int) and the value (as a float) of the valid
\* point with the highest index, not those of an earlier valid point.
Claim12_LatestValidPoint ==
    (LpvReturned /\ entries.is_list /\ ValidIdx(entries) # {}) =>
        /\ lpv_ret.exc = "none"
        /\ lpv_ret.ts = IntOf(entries.items[LatestValidIdx(entries)].items[1])
        /\ lpv_ret.val = FloatOf(entries.items[LatestValidIdx(entries)].items[2])

\* C13: last_point_value never raises and never returns a NaN value, whatever
\* the points of the series are: it returns a pair or (None, None).
Claim13_NeverRaisesNeverNaN ==
    LpvReturned => (lpv_ret.exc = "none" /\ ~IsNan(lpv_ret.val))

\* C14: for an input that is not a list, is empty, or holds only malformed
\* points, last_point_value returns (None, None).
Claim14_NothingUsable ==
    (/\ LpvReturned
     /\ \/ ~entries.is_list
        \/ \A i \in 1..Len(entries.items) : MalformedPoint(entries.items[i]))
    => lpv_ret = NoPoint

\* a series of malformed points of every kind has been scanned to its start
Witness14_AllMalformed ==
    /\ LpvReturned /\ entries.is_list /\ Len(entries.items) >= 2
    /\ \A i \in 1..Len(entries.items) : MalformedPoint(entries.items[i])
    /\ \E i \in 1..Len(entries.items) :
          entries.items[i].is_list /\ Len(entries.items[i].items) >= 2
    /\ lpv_ret = NoPoint

\* C18: prefer_avg has no observable effect: the call returned what the call
\* with the other value of prefer_avg returns on the same series.
Claim18_PreferAvgNoEffect ==
    LpvReturned => lpv_ret = LastPointValue(entries, ~prefer_avg)

\* prefer_avg was set and the point returned carries further columns
Witness18_PreferAvgOnWidePoint ==
    /\ LpvReturned /\ prefer_avg /\ lpv_ret.exc = "none" /\ lpv_ret.ts = 3
    /\ entries.is_list /\ Len(entries.items) >= 1
    /\ Len(entries.items[Len(entries.items)].items) >= 3

AlarmsReturnedList == alarms_ret.exc = "none"

RECURSIVE Normalized(_)
Normalized(recs) ==
    IF recs = <<>> THEN <<>> ELSE <<NormalizedAlarm(Head(recs))>> \o Normalized(Tail(recs))

\* the signals C15 lists
ListedSignal(a) ==
    \/ a.active \in {BoolV(TRUE), IntV(1), StrV("1")}
    \/ a.state \in {StrV("active"), IntV(1), StrV("1")}

\* C15: a record is in the output exactly when its active flag is true, 1 or
\* "1", or its state is "active", 1 or "1".
Claim15_ListedSignals ==
    AlarmsReturnedList =>
        alarms_ret.alarms = Normalized(SelectSeq(SelectRecs(envelope), ListedSignal))

\* the four locations, in the order C16 gives them
ClaimedLocations(b) == <<b.records, b.data.records, b.alarms, b.data.alarms>>

\* C16: the records are those of the first of records, data.records, alarms,
\* data.alarms that holds a list, so a list gives the same output wherever it
\* is and lists at later locations are ignored; no list anywhere gives [].
Claim16_EnvelopePrecedence ==
    (alarms_ret # AlarmsPending /\ envelope.is_dict) =>
        /\ \A i \in 1..4 :
              (/\ ClaimedLocations(envelope)[i].has = "list"
               /\ \A k \in 1..(i - 1) : ClaimedLocations(envelope)[k].has # "list")
              => alarms_ret = NormalizeRecs(ClaimedLocations(envelope)[i].items, <<>>)
        /\ (\A i \in 1..4 : ClaimedLocations(envelope)[i].has # "list")
              => alarms_ret = [exc |-> "none", alarms |-> <<>>]

\* records holds no list, data.records and alarms hold different lists, and
\* the output is that of data.records
Witness16_DataRecordsBeforeAlarms ==
    /\ alarms_ret # AlarmsPending
    /\ envelope.records = NotListSlot
    /\ envelope.data.records = ListSlot(ListB)
    /\ envelope.alarms = ListSlot(ListA)
    /\ alarms_ret.alarms = <<NormalizedAlarm(ListB[1])>>

\* C19: the zone never makes site_local_ms_to_utc_iso raise and never changes
\* the instant it returns: with any zone, known, unknown or empty, the call
\* gives what it gives for the same timestamp with no zone.
Claim19_ZoneIndependent ==
    iso_ret # IsoPending => iso_ret = SiteLocalMsToUtcIso(ms, NullV)

\* a call with a known zone of non-zero offset returned an instant
Witness19_KnownZone ==
    /\ iso_ret.exc = "none"
    /\ site_tz = StrV("America/Bogota")
    /\ iso_ret.iso = [wall |-> ms, suffix |-> "Z"]

Printed == pc = "done" /\ stdout = <<"json">> /\ exitCode = 0

NotesOf(n) == {i \in DOMAIN out.notes : out.notes[i] = n}

\* C11: when no installation is found for a role, that role's stats and alarms
\* are not fetched, its fields keep their initial values, exactly one note
\* for it is appended, and the run prints the snapshot and exits 0 unless a
\* fetch of the other role fails fatally.
Claim11_MissingRole ==
    /\ (pc = "done" /\ installs # <<>> /\ gen_id = None /\ exc \notin FetchExceptions) =>
          /\ "gen_stats" \notin Range(fetched) /\ "gen_alarms" \notin Range(fetched)
          /\ out.gen_solar_potencia_w = NullV /\ out.gen_red_potencia_w = NullV
          /\ out.gen_bateria_soc_pct = NullV /\ out.gen_alarmas = <<>>
          /\ Cardinality(NotesOf("gen_missing")) = 1
          /\ Printed
    /\ (pc = "done" /\ installs # <<>> /\ con_id = None /\ exc \notin FetchExceptions) =>
          /\ "con_stats" \notin Range(fetched) /\ "con_alarms" \notin Range(fetched)
          /\ out.con_potencia_w = NullV /\ out.con_alarmas = <<>>
          /\ Cardinality(NotesOf("con_missing")) = 1
          /\ Printed

\* the first candidate that no candidate exceeds
FirstMaxIdx(cands) ==
    CHOOSE i \in DOMAIN cands :
        /\ \A k \in DOMAIN cands : cands[k].ts <= cands[i].ts
        /\ \A k \in 1..(i - 1) : cands[k].ts < cands[i].ts

\* C17: in a printed snapshot timestamp_data is null exactly when no series
\* gave a timestamp, and else is the UTC instant of the candidate with the
\* greatest timestamp, the first collected of those that share it.
Claim17_LatestCandidate ==
    Printed =>
        /\ (out.timestamp_data = NoTimestamp) <=> (timestamp_candidates = <<>>)
        /\ timestamp_candidates # <<>> =>
              /\ latest = timestamp_candidates[FirstMaxIdx(timestamp_candidates)]
              /\ out.timestamp_data = [wall |-> latest.ts, suffix |-> "Z"]

\* the two sites' series share the greatest timestamp, and the generation
\* site's candidate, collected first, is the one taken
Witness17_TieAcrossSites ==
    /\ Printed
    /\ Len(timestamp_candidates) >= 3
    /\ timestamp_candidates[1].ts < timestamp_candidates[2].ts
    /\ timestamp_candidates[2].ts = timestamp_candidates[Len(timestamp_candidates)].ts
    /\ timestamp_candidates[2].tz # timestamp_candidates[Len(timestamp_candidates)].tz
    /\ latest = timestamp_candidates[2]

FetchOrder ==
    <<"users_me", "list_installations", "gen_stats", "gen_alarms", "con_stats", "con_alarms">>

OrderIdx(f) == CHOOSE i \in DOMAIN FetchOrder : FetchOrder[i] = f

\* the fetches started are in the fixed order, none twice; a call that runs
\* is the last one started; after a fatal fetch failure no other was started
SequentialFetches ==
    /\ \A i, k \in DOMAIN fetched : i < k => OrderIdx(fetched[i]) < OrderIdx(fetched[k])
    /\ phase # "idle" => (fetched # <<>> /\ fetched[Len(fetched)] = pc)
    /\ (pc = "done" /\ exc \in FetchExceptions) =>
          (lastCall.fetch = fetched[Len(fetched)] /\ lastCall.result # "ok")

\* a fetch is started only by main's first call or at the end of the call
\* before it, and t0 is not set again once main has read the clock
StartedAfterPrevious ==
    /\ pc # "start" => t0' = t0
    /\ fetched' # fetched =>
          /\ fetched' = Append(fetched, pc')
          /\ pc = "start" \/ (phase \in {"loop", "get"} /\ lastCall'.fetch = pc)

\* C20: the fetches run one after the other in the order user lookup,
\* installation listing, generation stats, generation alarms, consumption
\* stats, consumption alarms, each at most once and all against the one t0; a
\* fetch starts only when the one before has ended, and none starts after a
\* fatal failure.
Claim20_SequentialFetches == []SequentialFetches /\ [][StartedAfterPrevious]_vars

\* a run made all six fetches, one of them absorbed after a deadline
Witness20_AllSixFetches ==
    /\ pc = "done" /\ fetched = FetchOrder /\ deadlineHit # {} /\ exitCode = 0

====
